---- MODULE Spec2Model ----
(***************************************************************************)
(* Model of static/js/liveness.js: the LivenessDetector session (blink,    *)
(* mouth, head-movement and spoofing detectors, the score aggregation and  *)
(* the status cascade) and the BeautifulCamera host that polls it on a     *)
(* 500 ms timer and gates the recognition request on its verdict.          *)
(*                                                                         *)
(* Numbers.  Eye and mouth aspect ratios are carried in hundredths (0.25   *)
(* is 25).  Nose coordinates and every distance derived from them are      *)
(* carried in thousandths of a landmark unit (5 units is 5000, 0.1 is      *)
(* 100); Math.sqrt is the integer square root on that scale.  The          *)
(* anti-spoofing score is always a multiple of ten, so the products        *)
(* score * 0.2 and score * 0.1 are exact integers.                         *)
(*                                                                         *)
(* The ratio of a frame is an input: getEAR and the mouth formula are      *)
(* applied by the detector to landmark points the model does not carry.    *)
(* Fields that are written and never read (eyeAspectRatio, headMovement),  *)
(* DOM updates, notifications and the attendance log are not modelled.     *)
(***************************************************************************)
EXTENDS Integers, Sequences, FiniteSets, TLC

\* ------------------------------------------------------------------------
\* Bounds of the exploration
\* ------------------------------------------------------------------------
\* single-face frames explored per session (since construction or reset())
MaxFrames == 11
\* detectLiveness invocations that may be suspended on the detector at once
MaxInFlight == 2
\* recognition requests explored
MaxRequests == 1
\* single-face frames explored per marking session of the host
MaxHostFrames == 9
\* calls of initCamera explored
MaxInits == 1

\* ------------------------------------------------------------------------
\* Constants of LivenessDetector (constructor) and BeautifulCamera
\* ------------------------------------------------------------------------
maxHistorySize == 10
EYE_AR_THRESHOLD == 25
EYE_AR_CONSEC_FRAMES == 3
MOUTH_AR_THRESHOLD == 35
MOUTH_AR_CONSEC_FRAMES == 5
MIN_BLINKS_REQUIRED == 2
MIN_LIVENESS_SCORE == 80
ANTI_SPOOFING_THRESHOLD == 70
HEAD_MOVEMENT_THRESHOLD == 5000
PHOTO_SPOOFING_THRESHOLD == 100
SCREEN_MIN_HISTORY == 8
SCREEN_VARIATION_THRESHOLD == 50
LOW_VARIATION_THRESHOLD == 100
REQUIRED_REAL_PERSON_SCORE == 70

VARIABLES
    det,        \* window.livenessDetector: the fields of the LivenessDetector
    faceapi,    \* the global `faceapi`: "undeclared", "nomodels" or "ready"
    cam,        \* window.beautifulCamera: the fields of the BeautifulCamera
    timers,     \* live setInterval timers: [liveness |-> n, mark |-> n]
    inflight,   \* detectLiveness calls suspended on the detector:
                \* [fresh |-> n, stale |-> n]; stale ones were started before
                \* the last reset() or stopLivenessChecking()
    initPhase,  \* position of initializeLivenessDetection: "idle", "scripts", "models"
    returned,   \* outcome of the last detectLiveness call that finished
    requests,   \* recognition requests sent so far
    inits,      \* calls of initCamera so far
    frames,     \* single-face frames processed since construction or reset()
    run,        \* observer of the ratios fed since construction or reset():
                \* [below |-> n, above |-> n, armed |-> b, open |-> n, shut |-> n]
    obs         \* what the properties observe beside the program's state:
                \* [fed |-> the eye ratios of the single-face frames since
                \*  construction or reset(), twin |-> a session constructed at
                \*  the last reset() and given the same answers since,
                \*  initialized |-> what initialize() last returned to the host]

vars == <<det, faceapi, cam, timers, inflight, initPhase, returned, requests, inits, frames, run, obs>>

\* ------------------------------------------------------------------------
\* Arithmetic helpers
\* ------------------------------------------------------------------------
Abs(n) == IF n < 0 THEN -n ELSE n
Min(a, b) == IF a < b THEN a ELSE b
Max(a, b) == IF a > b THEN a ELSE b

RECURSIVE SqrtSearch(_, _, _)
SqrtSearch(n, lo, hi) ==
    IF lo >= hi THEN lo
    ELSE LET mid == (lo + hi + 1) \div 2
         IN  IF mid * mid <= n THEN SqrtSearch(n, mid, hi)
                               ELSE SqrtSearch(n, lo, mid - 1)

\* Math.sqrt(dx^2 + dy^2) on the thousandths scale: the floor of the root,
\* searched between max(|dx|, |dy|) and |dx| + |dy|, which enclose it
Distance(dx, dy) == SqrtSearch(dx * dx + dy * dy, Max(Abs(dx), Abs(dy)), Abs(dx) + Abs(dy))

\* ------------------------------------------------------------------------
\* LivenessDetector
\* ------------------------------------------------------------------------
\* constructor: the state of a newly constructed session
NewDetector ==
    [ faceLandmarks          |-> FALSE,
      blinkCount             |-> 0,
      livenessStatus         |-> "pending",
      eyeClosedFrames        |-> 0,
      eyeOpenFrames          |-> 0,
      blinkDetected          |-> FALSE,
      headMovementDetected   |-> FALSE,
      mouthOpenFrames        |-> 0,
      mouthClosedFrames      |-> 0,
      mouthOpenDetected      |-> FALSE,
      antiSpoofingScore      |-> 0,
      livenessScore          |-> 0,
      isLivenessActive       |-> FALSE,
      frameHistory           |-> << >>,
      photoSpoofingDetected  |-> FALSE,
      screenSpoofingDetected |-> FALSE,
      realPersonScore        |-> 0 ]

\* calculateEyeAspectRatio: the consecutive-frame counters of the eyes
calculateEyeAspectRatio(d, ear) ==
    IF ~d.faceLandmarks THEN d
    ELSE IF ear < EYE_AR_THRESHOLD
         THEN [d EXCEPT !.eyeClosedFrames = @ + 1, !.eyeOpenFrames = 0]
         ELSE [d EXCEPT !.eyeClosedFrames = 0, !.eyeOpenFrames = @ + 1]

\* calculateMouthAspectRatio: the consecutive-frame counters of the mouth
calculateMouthAspectRatio(d, mar) ==
    IF ~d.faceLandmarks THEN d
    ELSE IF mar > MOUTH_AR_THRESHOLD
         THEN [d EXCEPT !.mouthOpenFrames = @ + 1, !.mouthClosedFrames = 0]
         ELSE [d EXCEPT !.mouthOpenFrames = 0, !.mouthClosedFrames = @ + 1]

\* detectBlinks without the latch: every frame of a long closure counts
detectBlinksNoLatch(d) ==
    LET d1 == IF d.eyeClosedFrames >= EYE_AR_CONSEC_FRAMES
              THEN [d EXCEPT !.blinkCount = @ + 1, !.blinkDetected = TRUE]
              ELSE d
    IN  IF d1.eyeOpenFrames >= EYE_AR_CONSEC_FRAMES
        THEN [d1 EXCEPT !.blinkDetected = FALSE]
        ELSE d1

\* detectBlinks that never clears its latch
detectBlinksNoUnlatch(d) ==
    IF d.eyeClosedFrames >= EYE_AR_CONSEC_FRAMES /\ ~d.blinkDetected
    THEN [d EXCEPT !.blinkCount = @ + 1, !.blinkDetected = TRUE]
    ELSE d

\* detectBlinks: count the closure once, unlatch after enough open frames
detectBlinks(d) ==
    LET d1 == IF d.eyeClosedFrames >= EYE_AR_CONSEC_FRAMES /\ ~d.blinkDetected
              THEN [d EXCEPT !.blinkCount = @ + 1, !.blinkDetected = TRUE]
              ELSE d
    IN  IF d1.eyeOpenFrames >= EYE_AR_CONSEC_FRAMES
        THEN [d1 EXCEPT !.blinkDetected = FALSE]
        ELSE d1

\* detectMouthMovements with the 3 frames of the blink detector
detectMouthMovementsThreeFrames(d) ==
    LET d1 == IF d.mouthOpenFrames >= EYE_AR_CONSEC_FRAMES /\ ~d.mouthOpenDetected
              THEN [d EXCEPT !.mouthOpenDetected = TRUE]
              ELSE d
    IN  IF d1.mouthClosedFrames >= EYE_AR_CONSEC_FRAMES
        THEN [d1 EXCEPT !.mouthOpenDetected = FALSE]
        ELSE d1

\* detectMouthMovements: the mouth-open latch
detectMouthMovements(d) ==
    LET d1 == IF d.mouthOpenFrames >= MOUTH_AR_CONSEC_FRAMES /\ ~d.mouthOpenDetected
              THEN [d EXCEPT !.mouthOpenDetected = TRUE]
              ELSE d
    IN  IF d1.mouthClosedFrames >= MOUTH_AR_CONSEC_FRAMES
        THEN [d1 EXCEPT !.mouthOpenDetected = FALSE]
        ELSE d1

\* the entry detectHeadMovement pushes: the nose point and Date.now()
Sample(nose, now) == [x |-> nose.x, y |-> nose.y, timestamp |-> now]

\* the push with a shift that drops the newest sample instead of the oldest
PushHistoryDropNewest(h, p) ==
    LET h1 == Append(h, p)
    IN  IF Len(h1) > maxHistorySize THEN SubSeq(h1, 1, maxHistorySize) ELSE h1

\* the push and shift of detectHeadMovement: a window of the last 10 samples
PushHistory(h, p) ==
    LET h1 == Append(h, p)
    IN  IF Len(h1) > maxHistorySize THEN Tail(h1) ELSE h1

\* the threshold test applied to the newest pair only
LargeStepNewestPair(h) ==
    \/ Abs(h[Len(h)].x - h[Len(h)-1].x) > HEAD_MOVEMENT_THRESHOLD
    \/ Abs(h[Len(h)].y - h[Len(h)-1].y) > HEAD_MOVEMENT_THRESHOLD

\* the loop of detectHeadMovement: does some consecutive pair exceed the
\* movement threshold in x or in y
LargeStep(h) ==
    \E i \in 2..Len(h) :
        \/ Abs(h[i].x - h[i-1].x) > HEAD_MOVEMENT_THRESHOLD
        \/ Abs(h[i].y - h[i-1].y) > HEAD_MOVEMENT_THRESHOLD

RECURSIVE SumMovement(_, _)
\* totalMovement of detectHeadMovement over the pairs (i-1, i), i = 2..k
SumMovement(h, k) ==
    IF k < 2 THEN 0
    ELSE SumMovement(h, k - 1)
         + Abs(h[k].x - h[k-1].x) + Abs(h[k].y - h[k-1].y)

\* detectHeadMovement with a photo flag that follows the current window
detectHeadMovementTransient(d, nose, now) ==
    IF ~d.faceLandmarks THEN d
    ELSE
      LET h  == PushHistory(d.frameHistory, Sample(nose, now))
          d1 == [d EXCEPT !.frameHistory = h]
      IN  IF Len(h) >= 3
          THEN LET d2 == IF LargeStep(h)
                         THEN [d1 EXCEPT !.headMovementDetected = TRUE]
                         ELSE d1
                   still == SumMovement(h, Len(h)) < PHOTO_SPOOFING_THRESHOLD * (Len(h) - 1)
               IN  [d2 EXCEPT !.photoSpoofingDetected = still /\ Len(h) >= 5]
          ELSE d1

\* detectHeadMovement raising the photo flag only on a full window
detectHeadMovementLatePhoto(d, nose, now) ==
    IF ~d.faceLandmarks THEN d
    ELSE
      LET h  == PushHistory(d.frameHistory, Sample(nose, now))
          d1 == [d EXCEPT !.frameHistory = h]
      IN  IF Len(h) >= 3
          THEN LET d2 == IF LargeStep(h)
                         THEN [d1 EXCEPT !.headMovementDetected = TRUE]
                         ELSE d1
                   still == SumMovement(h, Len(h)) < PHOTO_SPOOFING_THRESHOLD * (Len(h) - 1)
               IN  IF still /\ Len(h) >= maxHistorySize
                   THEN [d2 EXCEPT !.photoSpoofingDetected = TRUE]
                   ELSE d2
          ELSE d1

\* detectHeadMovement raising the photo flag without the 5-sample condition
detectHeadMovementEarlyPhoto(d, nose, now) ==
    IF ~d.faceLandmarks THEN d
    ELSE
      LET h  == PushHistory(d.frameHistory, Sample(nose, now))
          d1 == [d EXCEPT !.frameHistory = h]
      IN  IF Len(h) >= 3
          THEN LET d2 == IF LargeStep(h)
                         THEN [d1 EXCEPT !.headMovementDetected = TRUE]
                         ELSE d1
                   still == SumMovement(h, Len(h)) < PHOTO_SPOOFING_THRESHOLD * (Len(h) - 1)
               IN  IF still
                   THEN [d2 EXCEPT !.photoSpoofingDetected = TRUE]
                   ELSE d2
          ELSE d1

\* detectHeadMovement
detectHeadMovement(d, nose, now) ==
    IF ~d.faceLandmarks THEN d
    ELSE
      LET h  == PushHistory(d.frameHistory, Sample(nose, now))
          d1 == [d EXCEPT !.frameHistory = h]
      IN  IF Len(h) >= 3
          THEN LET d2 == IF LargeStep(h)
                         THEN [d1 EXCEPT !.headMovementDetected = TRUE]
                         ELSE d1
                   \* avgMovement < threshold, with movements = Len(h) - 1
                   still == SumMovement(h, Len(h)) < PHOTO_SPOOFING_THRESHOLD * (Len(h) - 1)
               IN  IF still /\ Len(h) >= 5
                   THEN [d2 EXCEPT !.photoSpoofingDetected = TRUE]
                   ELSE d2
          ELSE d1

RECURSIVE SumVariation(_, _)
\* totalVariation of calculateMovementVariation over the pairs (i-1, i)
SumVariation(h, k) ==
    IF k < 2 THEN 0
    ELSE SumVariation(h, k - 1) + Distance(h[k].x - h[k-1].x, h[k].y - h[k-1].y)

\* calculateMovementVariation returning the total instead of the mean
calculateMovementVariationTotal(h) ==
    IF Len(h) < 2 THEN [total |-> 0, count |-> 1]
    ELSE [total |-> SumVariation(h, Len(h)), count |-> 1]

\* calculateMovementVariation: the mean as the pair (total, count); it is 0
\* for fewer than 2 samples
calculateMovementVariation(h) ==
    IF Len(h) < 2 THEN [total |-> 0, count |-> 1]
    ELSE [total |-> SumVariation(h, Len(h)), count |-> Len(h) - 1]

\* mean < limit
Below(mean, limit) == mean.total < limit * mean.count

\* detectSpoofing raising the screen flag on a low expression variation too
detectSpoofingByExpression(d, expressionVariation) ==
    IF \/ expressionVariation < 75
       \/ Len(d.frameHistory) >= SCREEN_MIN_HISTORY
            /\ Below(calculateMovementVariation(d.frameHistory), SCREEN_VARIATION_THRESHOLD)
    THEN [d EXCEPT !.screenSpoofingDetected = TRUE]
    ELSE d

\* detectSpoofing; expressionVariation is what calculateExpressionVariation()
\* returned (Math.random() * 0.5 + 0.5, in hundredths), assigned to a local
\* that is not read
detectSpoofing(d, expressionVariation) ==
    IF Len(d.frameHistory) >= SCREEN_MIN_HISTORY
       /\ Below(calculateMovementVariation(d.frameHistory), SCREEN_VARIATION_THRESHOLD)
    THEN [d EXCEPT !.screenSpoofingDetected = TRUE]
    ELSE d

\* calculateAntiSpoofingScore without the clamp to 0..100
calculateAntiSpoofingScoreUnclamped(d) ==
    LET s1 == IF d.photoSpoofingDetected THEN 100 - 50 ELSE 100
        s2 == IF d.screenSpoofingDetected THEN s1 - 50 ELSE s1
        movementVariation == calculateMovementVariation(d.frameHistory)
        s3 == IF Below(movementVariation, LOW_VARIATION_THRESHOLD) THEN s2 - 30 ELSE s2
        s4 == IF Below(movementVariation, SCREEN_VARIATION_THRESHOLD) THEN s3 - 20 ELSE s3
    IN  [d EXCEPT !.antiSpoofingScore = s4]

\* calculateAntiSpoofingScore
calculateAntiSpoofingScore(d) ==
    LET s1 == IF d.photoSpoofingDetected THEN 100 - 50 ELSE 100
        s2 == IF d.screenSpoofingDetected THEN s1 - 50 ELSE s1
        movementVariation == calculateMovementVariation(d.frameHistory)
        s3 == IF Below(movementVariation, LOW_VARIATION_THRESHOLD) THEN s2 - 30 ELSE s2
        s4 == IF Below(movementVariation, SCREEN_VARIATION_THRESHOLD) THEN s3 - 20 ELSE s3
    IN  [d EXCEPT !.antiSpoofingScore = Max(0, Min(100, s4))]

\* calculateRealPersonScore giving the 40 points from the third blink on
calculateRealPersonScoreThirdBlink(d) ==
    LET s == (IF d.blinkCount > 2 THEN 40 ELSE 0)
             + (IF d.blinkCount >= 3 THEN 10 ELSE 0)
             + (IF d.headMovementDetected THEN 30 ELSE 0)
             + (IF d.mouthOpenDetected THEN 20 ELSE 0)
             + (d.antiSpoofingScore \div 10)
    IN  Min(100, s)

\* calculateRealPersonScore
calculateRealPersonScore(d) ==
    LET s == (IF d.blinkCount >= 2 THEN 40 ELSE 0)
             + (IF d.blinkCount >= 3 THEN 10 ELSE 0)
             + (IF d.headMovementDetected THEN 30 ELSE 0)
             + (IF d.mouthOpenDetected THEN 20 ELSE 0)
             + (d.antiSpoofingScore \div 10)
    IN  Min(100, s)

\* the cascade with the gestures and the score tested before the flags
getDetailedStatusFlagsLast(d) ==
    IF d.blinkCount < MIN_BLINKS_REQUIRED THEN "need_blinks"
    ELSE IF ~d.headMovementDetected THEN "need_movement"
    ELSE IF d.antiSpoofingScore < ANTI_SPOOFING_THRESHOLD THEN "suspicious"
    ELSE IF d.photoSpoofingDetected THEN "photo_detected"
    ELSE IF d.screenSpoofingDetected THEN "screen_detected"
    ELSE "inactive"

\* the cascade with the blink test moved to the front
getDetailedStatusBlinksFirst(d) ==
    IF d.blinkCount < MIN_BLINKS_REQUIRED THEN "need_blinks"
    ELSE IF d.photoSpoofingDetected THEN "photo_detected"
    ELSE IF d.screenSpoofingDetected THEN "screen_detected"
    ELSE IF ~d.headMovementDetected THEN "need_movement"
    ELSE IF d.antiSpoofingScore < ANTI_SPOOFING_THRESHOLD THEN "suspicious"
    ELSE "inactive"

\* getDetailedStatus: the cascade of a frame that is not live
getDetailedStatus(d) ==
    IF d.photoSpoofingDetected THEN "photo_detected"
    ELSE IF d.screenSpoofingDetected THEN "screen_detected"
    ELSE IF d.blinkCount < MIN_BLINKS_REQUIRED THEN "need_blinks"
    ELSE IF ~d.headMovementDetected THEN "need_movement"
    ELSE IF d.antiSpoofingScore < ANTI_SPOOFING_THRESHOLD THEN "suspicious"
    ELSE "inactive"

\* the verdict from the two gestures alone
VerdictGesturesOnly(d) ==
    /\ d.blinkCount >= MIN_BLINKS_REQUIRED
    /\ d.headMovementDetected

\* the verdict with the mouth opening as a seventh gate
VerdictWithMouthGate(d) ==
    /\ d.livenessScore >= MIN_LIVENESS_SCORE
    /\ d.blinkCount >= MIN_BLINKS_REQUIRED
    /\ d.headMovementDetected
    /\ d.mouthOpenDetected
    /\ d.antiSpoofingScore >= ANTI_SPOOFING_THRESHOLD
    /\ ~d.photoSpoofingDetected
    /\ ~d.screenSpoofingDetected

\* the verdict without its blink gate
VerdictNoBlinkGate(d) ==
    /\ d.livenessScore >= MIN_LIVENESS_SCORE
    /\ d.headMovementDetected
    /\ d.antiSpoofingScore >= ANTI_SPOOFING_THRESHOLD
    /\ ~d.photoSpoofingDetected
    /\ ~d.screenSpoofingDetected

\* the conjunction assigned to isLivenessActive in calculateLivenessScore
Verdict(d) ==
    /\ d.livenessScore >= MIN_LIVENESS_SCORE
    /\ d.blinkCount >= MIN_BLINKS_REQUIRED
    /\ d.headMovementDetected
    /\ d.antiSpoofingScore >= ANTI_SPOOFING_THRESHOLD
    /\ ~d.photoSpoofingDetected
    /\ ~d.screenSpoofingDetected

\* calculateLivenessScore
calculateLivenessScore(d) ==
    LET score == Min(d.blinkCount * 20, 40)
                 + (IF d.mouthOpenDetected THEN 20 ELSE 0)
                 + (IF d.headMovementDetected THEN 20 ELSE 0)
                 + ((d.antiSpoofingScore * 2) \div 10)
        d1 == [d EXCEPT !.livenessScore = Min(100, Max(0, score))]
        d2 == [d1 EXCEPT !.realPersonScore = calculateRealPersonScore(d1)]
        d3 == [d2 EXCEPT !.isLivenessActive = Verdict(d2)]
    IN  [d3 EXCEPT !.livenessStatus =
             IF d3.isLivenessActive THEN "active" ELSE getDetailedStatus(d3)]

\* getLivenessData: the snapshot of the session
getLivenessData(d) ==
    [ status                 |-> d.livenessStatus,
      eyeBlinkCount          |-> d.blinkCount,
      mouthMovements         |-> IF d.mouthOpenDetected THEN 1 ELSE 0,
      headMovementDetected   |-> d.headMovementDetected,
      antiSpoofingScore      |-> d.antiSpoofingScore,
      livenessScore          |-> d.livenessScore,
      isActive               |-> d.isLivenessActive,
      blinkDetected          |-> d.blinkDetected,
      mouthOpenDetected      |-> d.mouthOpenDetected,
      spoofingDetected       |-> d.photoSpoofingDetected \/ d.screenSpoofingDetected,
      realPersonScore        |-> d.realPersonScore,
      photoSpoofingDetected  |-> d.photoSpoofingDetected,
      screenSpoofingDetected |-> d.screenSpoofingDetected ]

\* the literal returned by the guard and by the catch of detectLiveness; the
\* fields getLivenessData adds are absent from it (undefined, falsy)
FixedSnapshot(status, spoofing) ==
    [ status                 |-> status,
      eyeBlinkCount          |-> 0,
      mouthMovements         |-> 0,
      headMovementDetected   |-> FALSE,
      antiSpoofingScore      |-> 0,
      livenessScore          |-> 0,
      isActive               |-> FALSE,
      blinkDetected          |-> FALSE,
      mouthOpenDetected      |-> FALSE,
      spoofingDetected       |-> spoofing,
      realPersonScore        |-> 0,
      photoSpoofingDetected  |-> FALSE,
      screenSpoofingDetected |-> FALSE ]

PendingSnapshot == FixedSnapshot("pending", FALSE)
ErrorSnapshot == FixedSnapshot("error", TRUE)

\* the steps of detectLiveness for exactly one detection
SingleFace(d, f, now, e) ==
    LET d0 == [d EXCEPT !.faceLandmarks = TRUE]
        d1 == calculateEyeAspectRatio(d0, f.ear)
        d2 == calculateMouthAspectRatio(d1, f.mar)
        d3 == detectBlinks(d2)
        d4 == detectMouthMovements(d3)
        d5 == detectHeadMovement(d4, f.nose, now)
        d6 == detectSpoofing(d5, e)
        d7 == calculateAntiSpoofingScore(d6)
    IN  calculateLivenessScore(d7)

\* detectLiveness restarting the gesture counters when no single face is seen
AfterDetectionRestarting(d, r, now, e) ==
    IF r.throws THEN d
    ELSE IF r.count = 0
         THEN [d EXCEPT !.livenessStatus = "no_face",
                        !.eyeClosedFrames = 0, !.eyeOpenFrames = 0]
    ELSE IF r.count > 1
         THEN [d EXCEPT !.livenessStatus = "multiple_faces",
                        !.eyeClosedFrames = 0, !.eyeOpenFrames = 0]
    ELSE SingleFace(d, r, now, e)

\* detectLiveness writing the zero values of its error result into the session
AfterDetectionErrorWritten(d, r, now, e) ==
    IF r.throws
    THEN [d EXCEPT !.livenessStatus = "error",
                   !.antiSpoofingScore = 0,
                   !.livenessScore = 0,
                   !.realPersonScore = 0,
                   !.isLivenessActive = FALSE]
    ELSE IF r.count = 0 THEN [d EXCEPT !.livenessStatus = "no_face"]
    ELSE IF r.count > 1 THEN [d EXCEPT !.livenessStatus = "multiple_faces"]
    ELSE SingleFace(d, r, now, e)

\* the part of detectLiveness after the await: the session after the
\* detector answered r
AfterDetection(d, r, now, e) ==
    IF r.throws THEN d
    ELSE IF r.count = 0 THEN [d EXCEPT !.livenessStatus = "no_face"]
    ELSE IF r.count > 1 THEN [d EXCEPT !.livenessStatus = "multiple_faces"]
    ELSE SingleFace(d, r, now, e)

\* what detectLiveness returns after the detector answered r and the session
\* became d: the literal of the catch, or getLivenessData()
ReturnedSnapshot(d, r) ==
    IF r.throws THEN ErrorSnapshot ELSE getLivenessData(d)

\* reset() that forgets to empty the motion history
resetKeepingHistory(d) ==
    [d EXCEPT !.blinkCount = 0,
              !.livenessScore = 0,
              !.isLivenessActive = FALSE,
              !.blinkDetected = FALSE,
              !.mouthOpenDetected = FALSE,
              !.headMovementDetected = FALSE,
              !.photoSpoofingDetected = FALSE,
              !.screenSpoofingDetected = FALSE,
              !.eyeClosedFrames = 0,
              !.eyeOpenFrames = 0,
              !.mouthOpenFrames = 0,
              !.mouthClosedFrames = 0,
              !.antiSpoofingScore = 0,
              !.realPersonScore = 0,
              !.livenessStatus = "pending"]

\* reset
reset(d) ==
    [d EXCEPT !.blinkCount = 0,
              !.livenessScore = 0,
              !.isLivenessActive = FALSE,
              !.blinkDetected = FALSE,
              !.mouthOpenDetected = FALSE,
              !.headMovementDetected = FALSE,
              !.photoSpoofingDetected = FALSE,
              !.screenSpoofingDetected = FALSE,
              !.eyeClosedFrames = 0,
              !.eyeOpenFrames = 0,
              !.mouthOpenFrames = 0,
              !.mouthClosedFrames = 0,
              !.antiSpoofingScore = 0,
              !.realPersonScore = 0,
              !.livenessStatus = "pending",
              !.frameHistory = << >>]


\* ------------------------------------------------------------------------
\* The detector's answers
\* ------------------------------------------------------------------------
\* nose positions (thousandths of a unit)
NoseA == [x |-> 0, y |-> 0]
NoseB == [x |-> 6000, y |-> 0]

Face(ear, mar, nose) == [throws |-> FALSE, count |-> 1, ear |-> ear, mar |-> mar, nose |-> nose]
DetectorThrows == [throws |-> TRUE, count |-> 0, ear |-> 0, mar |-> 0, nose |-> NoseA]
NoFace == [throws |-> FALSE, count |-> 0, ear |-> 0, mar |-> 0, nose |-> NoseA]
TwoFaces == [throws |-> FALSE, count |-> 2, ear |-> 0, mar |-> 0, nose |-> NoseA]

\* the single faces fed to the session: eyes closed, mouth at its threshold
\* (not open), nose at rest; eyes at their threshold (not closed), mouth
\* open, nose moved by 6 units
Faces == { Face(10, 35, NoseA), Face(25, 50, NoseB) }

Answers == Faces \cup {NoFace, TwoFaces, DetectorThrows}

\* the answers explored under the host
HostAnswers == Faces

\* the values calculateExpressionVariation() is taken to return, of its
\* range 0.5 <= v < 1 (hundredths)
ExpressionVariations == {50, 99}

\* the one value taken where the draw is not what is explored
OneExpressionVariation == {75}

\* a nose position 0.1 unit away from NoseA (0.06 in x, 0.08 in y)
NoseC == [x |-> 60, y |-> 80]

\* the single faces of the small-motion exploration: eyes closed (0.10) with
\* the nose at rest, eyes open (0.40) with the nose 0.1 unit away; the
\* mouth stays shut
FineFaces == { Face(10, 20, NoseA), Face(40, 20, NoseC) }

\* the single faces of the entering-face exploration: the small-motion
\* faces, and a face with its eyes closed 6 units away
DriftFaces == FineFaces \cup { Face(10, 20, NoseB) }

\* ------------------------------------------------------------------------
\* Outcomes of a detectLiveness call
\* ------------------------------------------------------------------------
NoCall == [kind |-> "none", value |-> PendingSnapshot]
Thrown == [kind |-> "throw", value |-> PendingSnapshot]
Value(snapshot) == [kind |-> "value", value |-> snapshot]

\* currentLivenessData before any snapshot was stored
Null == FixedSnapshot("null", FALSE)

\* The observer of the ratios, kept beside the session and not read by it:
\* the lengths of the current runs of consecutive single-face frames with
\* the eye ratio below 0.25 and not below it, whether a closure may count
\* (at the start, and again once 3 consecutive frames were not below), and
\* the lengths of the current runs with the mouth ratio above 0.35 (open)
\* and at or below it (shut)
NewRun == [below |-> 0, above |-> 0, armed |-> TRUE, open |-> 0, shut |-> 0]

ObservedRun(g, r) ==
    IF r.throws \/ r.count # 1 THEN g
    ELSE LET below == IF r.ear < 25 THEN g.below + 1 ELSE 0
             above == IF r.ear < 25 THEN 0 ELSE g.above + 1
         IN  [ below |-> below,
               above |-> above,
               armed |-> IF above >= 3 THEN TRUE
                         ELSE IF below >= 3 THEN FALSE
                         ELSE g.armed,
               open  |-> IF r.mar > 35 THEN g.open + 1 ELSE 0,
               shut  |-> IF r.mar > 35 THEN 0 ELSE g.shut + 1 ]

\* The second observer: the eye ratios fed; a twin session that is newly
\* constructed whenever the session is reset and is given every answer the
\* session is given, with its own draw of the expression variation; the
\* outcome of the twin's last call; whether the last single-face frame drew
\* two different expression variations; the last return value of
\* initialize() seen by the host ("none" before the first); and whether a
\* snapshot returned since the last startMarking has satisfied the host's
\* gate
NewObs ==
    [ fed         |-> << >>,
      twin        |-> NewDetector,
      answered    |-> NoCall,
      differed    |-> FALSE,
      initialized |-> "none",
      authorized  |-> FALSE ]

\* the twin is given the answer r and draws e2 where the session drew e
ObservedAnswer(o, r, now, e, e2) ==
    LET t == AfterDetection(o.twin, r, now, e2)
    IN  [o EXCEPT !.fed      = IF ~r.throws /\ r.count = 1 THEN Append(@, r.ear) ELSE @,
                  !.twin     = t,
                  !.answered = Value(ReturnedSnapshot(t, r)),
                  !.differed = ~r.throws /\ r.count = 1 /\ e # e2]

\* the twin's call ends in the guard of detectLiveness, as the session's
ObservedGuard(o, outcome) == [o EXCEPT !.answered = outcome, !.differed = FALSE]

ObservedReset(o) == [o EXCEPT !.fed = << >>, !.twin = NewDetector]

\* constructor of BeautifulCamera
NewCamera ==
    [ isMarking             |-> FALSE,
      markInterval          |-> FALSE,
      livenessEnabled       |-> TRUE,
      livenessCheckInterval |-> FALSE,
      currentLivenessData   |-> Null,
      livenessUI            |-> FALSE,
      livenessCheckPassed   |-> FALSE ]

Init ==
    /\ det = NewDetector
    /\ faceapi = "undeclared"
    /\ cam = NewCamera
    /\ timers = [liveness |-> 0, mark |-> 0]
    /\ inflight = [fresh |-> 0, stale |-> 0]
    /\ initPhase = "idle"
    /\ returned = NoCall
    /\ requests = 0
    /\ inits = 0
    /\ frames = 0
    /\ run = NewRun
    /\ obs = NewObs

\* the guard of detectLiveness, before the try: the result when the call
\* does not reach the detector, else "call".  `!videoElement || !faceapi`
\* reads the global faceapi only for a video element, and reading it before
\* the face-api script has defined it raises a ReferenceError
GuardOutcome(video, api) ==
    IF ~video THEN "pending"
    ELSE IF api = "undeclared" THEN "throw"
    ELSE "call"

\* the answers the detector can give: inference before the models are
\* loaded throws
AnswersOf(api) ==
    IF api = "ready" THEN Answers \cup FineFaces \cup DriftFaces ELSE {DetectorThrows}

\* the frame budget: a single face is processed only within the bound
WithinBudget(r, bound) == (~r.throws /\ r.count = 1) => frames < bound
Counted(r) == IF ~r.throws /\ r.count = 1 THEN frames + 1 ELSE frames

\* Date.now() read by detectHeadMovement: a clock that ticks once per
\* single-face frame
Now == frames + 1

\* ------------------------------------------------------------------------
\* A session driven call by call: each call runs to its end before the next
\* ------------------------------------------------------------------------
\* initialize(): the scripts fail to load, the models fail to load, or all load
Initialize(outcome) ==
    /\ faceapi' = CASE outcome = "scripts_fail" -> faceapi
                    [] outcome = "models_fail"  -> IF faceapi = "ready" THEN "ready" ELSE "nomodels"
                    [] OTHER                    -> "ready"
    /\ UNCHANGED <<det, cam, timers, inflight, initPhase, returned, requests, inits, frames, run, obs>>

\* detectLiveness(videoElement) as one step, the detector answering r
DetectLiveness(video, r, e, e2) ==
    /\ LET g == GuardOutcome(video, faceapi)
       IN  CASE g = "pending" -> /\ returned' = Value(PendingSnapshot)
                                 /\ obs' = ObservedGuard(obs, returned')
                                 /\ UNCHANGED <<det, frames, run>>
             [] g = "throw"   -> /\ returned' = Thrown
                                 /\ obs' = ObservedGuard(obs, returned')
                                 /\ UNCHANGED <<det, frames, run>>
             [] OTHER         -> /\ r \in AnswersOf(faceapi)
                                 /\ WithinBudget(r, MaxFrames)
                                 /\ det' = AfterDetection(det, r, Now, e)
                                 /\ returned' = Value(ReturnedSnapshot(det', r))
                                 /\ frames' = Counted(r)
                                 /\ run' = ObservedRun(run, r)
                                 /\ obs' = ObservedAnswer(obs, r, Now, e, e2)
    /\ UNCHANGED <<faceapi, cam, timers, inflight, initPhase, requests, inits>>

\* reset()
Reset ==
    /\ det' = reset(det)
    /\ frames' = 0
    /\ run' = NewRun
    /\ obs' = ObservedReset(obs)
    /\ UNCHANGED <<faceapi, cam, timers, inflight, initPhase, returned, requests, inits>>

NextSession ==
    \/ \E o \in {"scripts_fail", "models_fail", "ok"} : Initialize(o)
    \/ \E v \in BOOLEAN, r \in Answers, e \in OneExpressionVariation :
          DetectLiveness(v, r, e, e)
    \/ Reset

SpecSession == Init /\ [][NextSession]_vars

\* the same session given single faces that move by small amounts
NextFine ==
    \/ \E o \in {"scripts_fail", "models_fail", "ok"} : Initialize(o)
    \/ \E r \in FineFaces, e \in ExpressionVariations, e2 \in ExpressionVariations :
          DetectLiveness(TRUE, r, e, e2)
    \/ Reset

SpecFine == Init /\ [][NextFine]_vars

\* the same session given a face that may be far away at the first sample
\* of a session and moves by small amounts afterwards
NextDrift ==
    \/ \E o \in {"scripts_fail", "models_fail", "ok"} : Initialize(o)
    \/ \E r \in DriftFaces, e \in OneExpressionVariation :
          /\ r.nose = NoseB => frames = 0
          /\ DetectLiveness(TRUE, r, e, e)
    \/ Reset

SpecDrift == Init /\ [][NextDrift]_vars


\* ------------------------------------------------------------------------
\* BeautifulCamera: the host that polls the session and marks attendance
\* ------------------------------------------------------------------------
\* the assignment to livenessCheckPassed in updateLivenessUI
PassesGate(data) ==
    /\ data.isActive
    /\ ~data.spoofingDetected
    /\ data.realPersonScore >= REQUIRED_REAL_PERSON_SCORE

\* updateLivenessUI(data): nothing is stored before the overlay exists
updateLivenessUI(c, data) ==
    IF ~c.livenessUI THEN c
    ELSE [c EXCEPT !.currentLivenessData = data,
                   !.livenessCheckPassed = PassesGate(data)]

\* the marking tick without its first early return
BlockedOnDataOnly(c) ==
    \/ c.currentLivenessData # Null /\ c.currentLivenessData.spoofingDetected
    \/ c.currentLivenessData # Null
         /\ c.currentLivenessData.realPersonScore < REQUIRED_REAL_PERSON_SCORE

\* the three early returns of the marking tick when liveness is enabled
Blocked(c) ==
    \/ ~c.livenessCheckPassed
    \/ c.currentLivenessData # Null /\ c.currentLivenessData.spoofingDetected
    \/ c.currentLivenessData # Null
         /\ c.currentLivenessData.realPersonScore < REQUIRED_REAL_PERSON_SCORE

\* every call in flight was started before this reset or stop
AllStale(f) == [fresh |-> 0, stale |-> f.fresh + f.stale]

\* initCamera, up to the call of initialize() in initializeLivenessDetection
InitCamera ==
    /\ initPhase = "idle"
    /\ cam.livenessEnabled
    /\ inits < MaxInits
    /\ inits' = inits + 1
    /\ initPhase' = "scripts"
    /\ UNCHANGED <<det, faceapi, cam, timers, inflight, returned, requests, frames, run, obs>>

\* what initialize() gives its caller, by the try and catch around all of
\* its awaits: "true" when the scripts and the models loaded, "false" when
\* a load was rejected
initialize(scripts, models) == IF scripts /\ models THEN "true" ELSE "false"

\* initializeLivenessDetection that only warns when initialize() failed
initializeLivenessDetectionWarnOnly(c, initialized) ==
    IF initialized = "true"
    THEN [c EXCEPT !.livenessUI = TRUE]
    ELSE c

\* initializeLivenessDetection after initialize() ended: the overlay is
\* created, or liveness is disabled (also by its own catch)
initializeLivenessDetection(c, initialized) ==
    IF initialized = "true"
    THEN [c EXCEPT !.livenessUI = TRUE]
    ELSE [c EXCEPT !.livenessEnabled = FALSE]

\* initialize(): the two loadScript calls end; on failure initialize returns
\* false and the host disables liveness
ScriptsLoaded(ok) ==
    /\ initPhase = "scripts"
    /\ IF ok
       THEN /\ faceapi' = IF faceapi = "undeclared" THEN "nomodels" ELSE faceapi
            /\ initPhase' = "models"
            /\ UNCHANGED <<cam, obs>>
       ELSE /\ faceapi' = faceapi
            /\ initPhase' = "idle"
            /\ obs' = [obs EXCEPT !.initialized = initialize(FALSE, FALSE)]
            /\ cam' = initializeLivenessDetection(cam, obs'.initialized)
    /\ UNCHANGED <<det, timers, inflight, returned, requests, inits, frames, run>>

\* initialize(): the three loadFromUri calls end; on success the host
\* creates the overlay, on failure it disables liveness
ModelsLoaded(ok) ==
    /\ initPhase = "models"
    /\ initPhase' = "idle"
    /\ faceapi' = IF ok THEN "ready" ELSE faceapi
    /\ obs' = [obs EXCEPT !.initialized = initialize(TRUE, ok)]
    /\ cam' = initializeLivenessDetection(cam, obs'.initialized)
    /\ UNCHANGED <<det, timers, inflight, returned, requests, inits, frames, run>>

\* startMarking without its isMarking test
StartMarkingAgain ==
    /\ IF cam.livenessEnabled
       THEN /\ det' = reset(det)
            /\ frames' = 0
            /\ run' = NewRun
            /\ obs' = [ObservedReset(obs) EXCEPT !.authorized = FALSE]
            /\ inflight' = AllStale(inflight)
            /\ timers' = [liveness |-> timers.liveness + 1, mark |-> timers.mark + 1]
            /\ cam' = [cam EXCEPT !.isMarking = TRUE,
                                  !.livenessCheckInterval = TRUE,
                                  !.markInterval = TRUE]
       ELSE /\ timers' = [timers EXCEPT !.mark = @ + 1]
            /\ cam' = [cam EXCEPT !.isMarking = TRUE, !.markInterval = TRUE]
            /\ obs' = [obs EXCEPT !.authorized = FALSE]
            /\ UNCHANGED <<det, frames, run, inflight>>
    /\ UNCHANGED <<faceapi, initPhase, returned, requests, inits>>

\* startMarking, with startLivenessChecking: reset the session, start the
\* 500 ms polling timer, then the 2 s marking timer
StartMarking ==
    /\ ~cam.isMarking
    /\ IF cam.livenessEnabled
       THEN /\ det' = reset(det)
            /\ frames' = 0
            /\ run' = NewRun
            /\ obs' = [ObservedReset(obs) EXCEPT !.authorized = FALSE]
            /\ inflight' = AllStale(inflight)
            /\ timers' = [liveness |-> timers.liveness + 1, mark |-> timers.mark + 1]
            /\ cam' = [cam EXCEPT !.isMarking = TRUE,
                                  !.livenessCheckInterval = TRUE,
                                  !.markInterval = TRUE]
       ELSE /\ timers' = [timers EXCEPT !.mark = @ + 1]
            /\ cam' = [cam EXCEPT !.isMarking = TRUE, !.markInterval = TRUE]
            /\ obs' = [obs EXCEPT !.authorized = FALSE]
            /\ UNCHANGED <<det, frames, run, inflight>>
    /\ UNCHANGED <<faceapi, initPhase, returned, requests, inits>>

\* stopMarking, with stopLivenessChecking: both timers are cleared; a call
\* suspended on the detector is not cancelled
StopMarking ==
    /\ cam.markInterval
    /\ IF cam.livenessCheckInterval
       THEN /\ timers' = [liveness |-> timers.liveness - 1, mark |-> timers.mark - 1]
            /\ inflight' = AllStale(inflight)
       ELSE /\ timers' = [timers EXCEPT !.mark = @ - 1]
            /\ inflight' = inflight
    /\ cam' = [cam EXCEPT !.markInterval = FALSE,
                          !.isMarking = FALSE,
                          !.livenessCheckInterval = FALSE]
    /\ UNCHANGED <<det, faceapi, initPhase, returned, requests, inits, frames, run, obs>>

\* the polling timer fires: detectLiveness(video) runs up to its await.  The
\* guard throws before the face-api script is loaded (the callback catches
\* it); inference before the models are loaded fails at once and the error
\* snapshot is handed to updateLivenessUI; else the call is suspended
LivenessTick ==
    /\ timers.liveness > 0
    /\ LET g == GuardOutcome(TRUE, faceapi)
       IN  CASE g = "throw" ->
                  /\ returned' = Thrown
                  /\ obs' = ObservedGuard(obs, returned')
                  /\ UNCHANGED <<cam, inflight>>
             [] g = "call" /\ faceapi = "nomodels" ->
                  /\ returned' = Value(ErrorSnapshot)
                  /\ obs' = ObservedGuard(obs, returned')
                  /\ cam' = updateLivenessUI(cam, ErrorSnapshot)
                  /\ UNCHANGED inflight
             [] OTHER ->
                  /\ inflight.fresh + inflight.stale < MaxInFlight
                  /\ inflight' = [inflight EXCEPT !.fresh = @ + 1]
                  /\ UNCHANGED <<cam, returned, obs>>
    /\ UNCHANGED <<det, faceapi, timers, initPhase, requests, inits, frames, run>>

\* the detector answers r to a suspended call: the rest of detectLiveness
\* runs, then the rest of the polling callback (updateLivenessUI)
DetectorAnswers(which, r, e) ==
    /\ inflight[which] > 0
    /\ r \in AnswersOf(faceapi)
    /\ WithinBudget(r, MaxHostFrames)
    /\ inflight' = [inflight EXCEPT ![which] = @ - 1]
    /\ det' = AfterDetection(det, r, Now, e)
    /\ returned' = Value(ReturnedSnapshot(det', r))
    /\ cam' = updateLivenessUI(cam, returned'.value)
    /\ frames' = Counted(r)
    /\ run' = ObservedRun(run, r)
    /\ obs' = [ObservedAnswer(obs, r, Now, e, e) EXCEPT
                 !.authorized = @ \/ PassesGate(returned'.value)]
    /\ UNCHANGED <<faceapi, timers, initPhase, requests, inits>>

\* the marking timer fires: the liveness gate, then the recognition request
\* with currentLivenessData as its liveness_data
MarkTick ==
    /\ timers.mark > 0
    /\ requests < MaxRequests
    /\ IF cam.livenessEnabled /\ Blocked(cam)
       THEN UNCHANGED requests
       ELSE requests' = requests + 1
    /\ UNCHANGED <<det, faceapi, cam, timers, inflight, initPhase, returned, inits, frames, run, obs>>

Next ==
    \/ InitCamera
    \/ \E ok \in BOOLEAN : ScriptsLoaded(ok)
    \/ \E ok \in BOOLEAN : ModelsLoaded(ok)
    \/ StartMarking
    \/ StopMarking
    \/ LivenessTick
    \/ \E which \in {"fresh", "stale"}, r \in HostAnswers, e \in OneExpressionVariation :
          DetectorAnswers(which, r, e)
    \/ MarkTick

Spec == Init /\ [][Next]_vars


\* ------------------------------------------------------------------------
\* Properties
\* ------------------------------------------------------------------------
\* the six gates of the verdict, over a record with the fields of a snapshot
SixGates(score, blinks, moved, anti, photo, screen) ==
    /\ score >= 80
    /\ blinks >= 2
    /\ moved
    /\ anti >= 70
    /\ ~photo
    /\ ~screen

\* C1: the verdict of the session, and the isActive of every snapshot that
\* detectLiveness returns, is true exactly when the liveness score is at
\* least 80, at least 2 blinks were counted, head movement was detected, the
\* anti-spoofing score is at least 70 and neither spoof flag is raised; it is
\* never true with a blink count of 1.
C1_VerdictIffAllGates ==
    /\ det.isLivenessActive <=>
         SixGates(det.livenessScore, det.blinkCount, det.headMovementDetected,
                  det.antiSpoofingScore, det.photoSpoofingDetected,
                  det.screenSpoofingDetected)
    /\ returned.kind = "value" =>
         (returned.value.isActive <=>
            SixGates(returned.value.livenessScore, returned.value.eyeBlinkCount,
                     returned.value.headMovementDetected,
                     returned.value.antiSpoofingScore,
                     returned.value.photoSpoofingDetected,
                     returned.value.screenSpoofingDetected))
    /\ ~(det.isLivenessActive /\ det.blinkCount = 1)

\* a single-face frame returned a liveness score of 80 with one blink
\* counted, every other gate passing, and was not live
C1_OneBlinkHighScore ==
    /\ returned.kind = "value"
    /\ returned.value.status = "need_blinks"
    /\ returned.value.eyeBlinkCount = 1
    /\ returned.value.livenessScore >= 80
    /\ returned.value.headMovementDetected
    /\ returned.value.antiSpoofingScore >= 70
    /\ ~returned.value.spoofingDetected
    /\ ~returned.value.isActive


\* C2: a raised photo-spoof or screen-spoof flag is lowered by no step other
\* than reset(): it stays raised through every detectLiveness call, whatever
\* the detector answers.
C2_SpoofFlagsSticky ==
    [][ /\ (det.photoSpoofingDetected /\ ~det'.photoSpoofingDetected) => det' = reset(det)
        /\ (det.screenSpoofingDetected /\ ~det'.screenSpoofingDetected) => det' = reset(det)
      ]_vars

\* both flags were raised by a still face, then the face moved by more than
\* the movement threshold and the flags are still raised
C2_FlagsSurviveMotion ==
    /\ det.photoSpoofingDetected
    /\ det.screenSpoofingDetected
    /\ det.headMovementDetected

\* C3: with liveness enabled, a marking tick sends a recognition request only
\* if the last snapshot that detectLiveness handed to the host has isActive,
\* no spoofing detected and a real-person score of at least 70.
C3_SubmitOnlyIfGatePasses ==
    [][ (requests' = requests + 1 /\ cam.livenessEnabled) =>
           /\ returned.kind = "value"
           /\ returned.value.isActive
           /\ ~returned.value.spoofingDetected
           /\ returned.value.realPersonScore >= 70
      ]_vars

\* a request was sent with liveness enabled, after a snapshot that passes
C3_GatedRequestSent ==
    /\ requests > 0
    /\ cam.livenessEnabled
    /\ cam.livenessCheckPassed
    /\ returned.kind = "value"
    /\ returned.value.isActive

\* C4: at most one detectLiveness invocation is suspended on the detector at
\* any time.
C4_AtMostOneInFlight == inflight.fresh + inflight.stale <= 1

\* C5: the answer to a call that was started before the last reset() or stop
\* of the polling changes no field of the session and is not stored as the
\* host's current liveness data.
C5_StaleResultDiscarded ==
    [][ inflight'.stale < inflight.stale =>
           /\ det' = det
           /\ cam'.currentLivenessData = cam.currentLivenessData
           /\ cam'.livenessCheckPassed = cam.livenessCheckPassed
      ]_vars

FirstMatch(photo, screen, blinks, moved, anti) ==
    IF photo THEN "photo_detected"
    ELSE IF screen THEN "screen_detected"
    ELSE IF blinks < 2 THEN "need_blinks"
    ELSE IF ~moved THEN "need_movement"
    ELSE IF anti < 70 THEN "suspicious"
    ELSE "inactive"

C8_NoFaceNotActive ==
    (returned.kind = "value" /\ returned.value.status = "no_face") =>
        ~returned.value.isActive

\* C9: a step that leaves the status no_face or multiple_faces leaves every
\* other field of the session as it was.
C9_NoFaceChangesOnlyStatus ==
    [][ det'.livenessStatus \in {"no_face", "multiple_faces"} =>
           /\ det' = [det EXCEPT !.livenessStatus = det'.livenessStatus]
           /\ frames' = frames
      ]_vars

\* two faces were seen in a session that had counted a blink and detected
\* head movement over a history of at least 3 samples
C9_TwoFacesMidSession ==
    /\ det.livenessStatus = "multiple_faces"
    /\ det.blinkCount >= 1
    /\ det.headMovementDetected
    /\ Len(det.frameHistory) >= 3

\* C10: no detectLiveness call ends by throwing to its caller.
C10_NeverThrows == returned.kind # "throw"

\* C11: a detectLiveness call that returns the error snapshot leaves every
\* field of the session as it was before the call: a step after which the
\* last result is the error snapshot changes the session only if it is a
\* reset() (which leaves the last result alone), and it processes no frame.
C11_ErrorLeavesSession ==
    [][ (returned'.kind = "value" /\ returned'.value.status = "error") =>
           /\ \/ det' = det
              \/ returned' = returned /\ det' = reset(det)
           /\ frames' \in {frames, 0}
      ]_vars

\* a call failed in a session that had counted a blink, detected head
\* movement and filled its history, and the session still holds all of it
C11_ErrorMidSession ==
    /\ returned.kind = "value"
    /\ returned.value = ErrorSnapshot
    /\ det.blinkCount >= 1
    /\ det.headMovementDetected
    /\ det.antiSpoofingScore > 0
    /\ det.livenessStatus # "error"
    /\ Len(det.frameHistory) >= 3

\* the fields of a session that later frames and snapshots can depend on:
\* all but faceLandmarks, which detectLiveness assigns before any step reads
\* it
Observable(d) == [d EXCEPT !.faceLandmarks = FALSE]

\* C12: reset() puts the session back to its creation-time defaults: from
\* the reset on, the session and its snapshot equal those of a session that
\* was newly constructed at the reset and given the same answers since, in
\* every field that a snapshot or a later frame depends on.
C12_ResetIsFreshSession ==
    /\ Observable(det) = Observable(obs.twin)
    /\ getLivenessData(det) = getLivenessData(obs.twin)

\* reset() has just been called on a session whose last snapshot had the
\* screen-spoof flag raised and whose history was full: the session carries
\* landmarks of its past, the twin is newly constructed
C12_ResetAfterScreenSpoof ==
    /\ returned.kind = "value"
    /\ returned.value.screenSpoofingDetected
    /\ returned.value.eyeBlinkCount >= 1
    /\ det.faceLandmarks
    /\ obs.twin = NewDetector
    /\ det.livenessStatus = "pending"

\* C13: the motion history never holds more than 10 entries; a single-face
\* frame appends its sample at the end, keeps the earlier entries in their
\* order and, when the history was full, drops the oldest one; the entries
\* are in arrival order (increasing timestamps).
C13_HistoryWindow ==
    /\ Len(det.frameHistory) <= 10
    /\ \A i \in 2..Len(det.frameHistory) :
          det.frameHistory[i-1].timestamp < det.frameHistory[i].timestamp
    /\ Len(det.frameHistory) = IF frames < 10 THEN frames ELSE 10
    /\ \A i \in 1..Len(det.frameHistory) :
          det.frameHistory[i].timestamp = frames - Len(det.frameHistory) + i

\* 11 single-face frames were processed: the first sample is gone and the
\* history holds samples 2 to 11
C13_FirstSampleEvicted ==
    /\ frames = 11
    /\ Len(det.frameHistory) = 10
    /\ det.frameHistory[1].timestamp = 2
    /\ det.frameHistory[10].timestamp = 11

\* C14: initialize() ends by returning true or false, never by raising; the
\* first call returns true exactly when the scripts and the models loaded;
\* after it returned false liveness is disabled in the host, and with
\* liveness disabled a marking tick sends its recognition request with no
\* gate: the tick can send and cannot be blocked.
C14_InitializeFailsOpen ==
    /\ obs.initialized \in {"none", "true", "false"}
    /\ (inits = 1 /\ initPhase = "idle") =>
          (obs.initialized = "true" <=> faceapi = "ready")
    /\ obs.initialized = "true" => cam.livenessUI
    /\ obs.initialized = "false" => ~cam.livenessEnabled
    /\ (~cam.livenessEnabled /\ timers.mark > 0 /\ requests < MaxRequests) =>
          /\ ENABLED (MarkTick /\ requests' = requests + 1)
          /\ ~ENABLED (MarkTick /\ requests' = requests)

\* the models failed to load, liveness was disabled, and a request was sent
\* although the host never received a snapshot
C14_SentWithoutLiveness ==
    /\ obs.initialized = "false"
    /\ faceapi = "nomodels"
    /\ ~cam.livenessEnabled
    /\ ~cam.livenessCheckPassed
    /\ cam.currentLivenessData = Null
    /\ requests > 0

\* C15: in every state of the session and in every snapshot returned, the
\* anti-spoofing, liveness and real-person scores lie in 0..100, the blink
\* count is a non-negative integer and mouthMovements is 0 or 1.
C15_ScoresInRange ==
    /\ det.antiSpoofingScore \in 0..100
    /\ det.livenessScore \in 0..100
    /\ det.realPersonScore \in 0..100
    /\ det.blinkCount \in Nat
    /\ returned.value.antiSpoofingScore \in 0..100
    /\ returned.value.livenessScore \in 0..100
    /\ returned.value.realPersonScore \in 0..100
    /\ returned.value.eyeBlinkCount \in Nat
    /\ returned.value.mouthMovements \in {0, 1}

\* both spoof flags are raised over a still history, so the deductions add
\* up to 150 and the score is held at 0
C15_ScoreHeldAtZero ==
    /\ det.photoSpoofingDetected
    /\ det.screenSpoofingDetected
    /\ Len(det.frameHistory) >= 8
    /\ det.antiSpoofingScore = 0
    /\ returned.kind = "value"
    /\ returned.value.antiSpoofingScore = 0
    /\ returned.value.eyeBlinkCount >= 1

RECURSIVE TotalDisplacement(_)
\* the sum of the distances between consecutive samples of a history
TotalDisplacement(h) ==
    IF Len(h) < 2 THEN 0
    ELSE Distance(h[2].x - h[1].x, h[2].y - h[1].y) + TotalDisplacement(Tail(h))

\* the mean consecutive displacement of a history is below limit (in
\* thousandths); the mean is 0 for fewer than 2 samples
MeanDisplacementBelow(h, limit) ==
    IF Len(h) < 2 THEN 0 < limit
    ELSE TotalDisplacement(h) < limit * (Len(h) - 1)

\* 100, minus 50 per raised flag, minus 30 for a mean displacement below
\* 0.1 and 20 more below 0.05, clamped to 0..100
ExpectedAntiSpoofing(photo, screen, h) ==
    LET raw == 100 - (IF photo THEN 50 ELSE 0) - (IF screen THEN 50 ELSE 0)
                   - (IF MeanDisplacementBelow(h, 100) THEN 30 ELSE 0)
                   - (IF MeanDisplacementBelow(h, 50) THEN 20 ELSE 0)
    IN  IF raw < 0 THEN 0 ELSE IF raw > 100 THEN 100 ELSE raw

\* C16: after every single-face frame the anti-spoofing score is 100 minus
\* 50 if photo-spoof is flagged, minus 50 if screen-spoof is flagged, minus
\* 30 if the mean consecutive displacement of the history is below 0.1 and
\* a further 20 if it is below 0.05, clamped to 0..100, the mean being 0 for
\* fewer than 2 samples; the first frame of a session scores 50 with no
\* flag raised.
C16_AntiSpoofingScore ==
    [][ frames' = frames + 1 =>
           /\ det'.antiSpoofingScore =
                 ExpectedAntiSpoofing(det'.photoSpoofingDetected,
                                      det'.screenSpoofingDetected,
                                      det'.frameHistory)
           /\ returned'.value.antiSpoofingScore = det'.antiSpoofingScore
           /\ frames = 0 =>
                 /\ det'.antiSpoofingScore = 50
                 /\ ~det'.photoSpoofingDetected
                 /\ ~det'.screenSpoofingDetected
      ]_vars

\* the mean displacement is at least 0.05 and below 0.1 with no flag
\* raised: only the 30 points are deducted
C16_ThirtyOnly ==
    /\ Len(det.frameHistory) >= 2
    /\ ~det.photoSpoofingDetected
    /\ ~det.screenSpoofingDetected
    /\ MeanDisplacementBelow(det.frameHistory, 100)
    /\ ~MeanDisplacementBelow(det.frameHistory, 50)
    /\ det.antiSpoofingScore = 70

\* C17: the mouth-open latch turns on only at a single-face frame that makes
\* the run of frames with the mouth ratio above 0.35 at least 5 long, and
\* turns off only at one that makes the run of frames with the ratio at or
\* below 0.35 at least 5 long (or by reset()); every other frame leaves it
\* as it was; the snapshot carries the latch as 0 or 1 and no count.
C17_MouthLatch ==
    [][ /\ IF frames' = frames + 1
           THEN /\ det'.mouthOpenDetected =
                      IF run'.open >= 5 THEN TRUE
                      ELSE IF run'.shut >= 5 THEN FALSE
                      ELSE det.mouthOpenDetected
                /\ returned'.value.mouthMovements =
                      IF det'.mouthOpenDetected THEN 1 ELSE 0
           ELSE \/ det'.mouthOpenDetected = det.mouthOpenDetected
                \/ det' = reset(det)
      ]_vars

\* the latch is on and the mouth has been shut for 4 frames: a run shorter
\* than 5 has left it on
C17_LatchSurvivesShortRun ==
    /\ det.mouthOpenDetected
    /\ run.shut = 4
    /\ returned.kind = "value"
    /\ returned.value.mouthMovements = 1

\* some consecutive pair of the history differs by more than 5 units in x
\* or in y
PairBeyondFiveUnits(h) ==
    \E i \in 1..(Len(h) - 1) :
        \/ h[i+1].x - h[i].x > 5000 \/ h[i].x - h[i+1].x > 5000
        \/ h[i+1].y - h[i].y > 5000 \/ h[i].y - h[i+1].y > 5000

\* C18: headMovementDetected becomes true exactly at the first single-face
\* frame after which the history holds at least 3 samples and some
\* consecutive pair of the window differs by more than 5 units in x or in
\* y; once true it stays true, also after that pair has left the window,
\* until reset().
C18_HeadMovementFlag ==
    [][ IF frames' = frames + 1
        THEN det'.headMovementDetected =
               \/ det.headMovementDetected
               \/ Len(det'.frameHistory) >= 3 /\ PairBeyondFiveUnits(det'.frameHistory)
        ELSE \/ det'.headMovementDetected = det.headMovementDetected
             \/ det' = reset(det)
      ]_vars

\* head movement is still detected although no pair of the full window
\* exceeds the threshold any more
C18_FlagOutlivesPair ==
    /\ det.headMovementDetected
    /\ Len(det.frameHistory) = 10
    /\ ~PairBeyondFiveUnits(det.frameHistory)

RECURSIVE TotalStep(_)
\* the sum of |dx| + |dy| over the consecutive pairs of a history
TotalStep(h) ==
    IF Len(h) < 2 THEN 0
    ELSE Abs(h[2].x - h[1].x) + Abs(h[2].y - h[1].y) + TotalStep(Tail(h))

\* C19: a single-face frame raises the photo-spoof flag exactly when, after
\* it, the history holds at least 5 samples and the mean of |dx| + |dy| over
\* the consecutive pairs of the window is below 0.1; the flag is never
\* raised in a session that has processed fewer than 5 frames.
C19_PhotoFlag ==
    [][ /\ frames' = frames + 1 =>
             det'.photoSpoofingDetected =
               \/ det.photoSpoofingDetected
               \/ /\ Len(det'.frameHistory) >= 5
                  /\ TotalStep(det'.frameHistory) < 100 * (Len(det'.frameHistory) - 1)
        /\ det'.photoSpoofingDetected => frames' >= 5
      ]_vars

\* 10 frames with the nose at one position from a fresh session: the photo
\* flag is raised and no head movement is detected
C19_StillNoseTenFrames ==
    /\ frames = 10
    /\ Len(det.frameHistory) = 10
    /\ \A i \in 1..10 : det.frameHistory[i].x = det.frameHistory[1].x
                         /\ det.frameHistory[i].y = det.frameHistory[1].y
    /\ det.photoSpoofingDetected
    /\ ~det.headMovementDetected

\* the eye ratios of scenario 3: 5 frames at 0.10, then 5 frames at 0.40
BlinkScenario == <<10, 10, 10, 10, 10, 40, 40, 40, 40, 40>>

\* C20: from a fresh session given 5 single-face frames with eye ratio 0.10
\* and then frames with eye ratio 0.40, the blink count reads 1 once 3 of
\* the open frames have been processed (frames 8, 9 and 10), and at the end
\* of the 10 frames it is exactly 1 with the blink latch cleared.
C20_OneBlinkScenario ==
    \A k \in 8..10 :
        obs.fed = SubSeq(BlinkScenario, 1, k) =>
            /\ det.blinkCount = 1
            /\ ~det.blinkDetected
            /\ returned.kind = "value"
            /\ returned.value.eyeBlinkCount = 1

\* the 10 frames of the scenario have been processed
C20_ScenarioCompleted ==
    /\ obs.fed = BlinkScenario
    /\ frames = 10
    /\ det.blinkCount = 1
    /\ det.eyeOpenFrames = 5

\* C21: at most one polling timer and at most one marking timer exist at any
\* time, whatever the sequence of startMarking and stopMarking; the handles
\* held by the host are those of the live timers, and no polling timer runs
\* without a marking timer.
C21_OneTimerEach ==
    /\ timers.liveness <= 1
    /\ timers.mark <= 1
    /\ (timers.mark = 1) = cam.markInterval
    /\ (timers.liveness = 1) = cam.livenessCheckInterval
    /\ cam.isMarking = cam.markInterval
    /\ timers.liveness = 1 => timers.mark = 1

\* a marking session was stopped and the next one started while a call of
\* the stopped one is still suspended: one timer of each kind is live
C21_RestartedSession ==
    /\ timers = [liveness |-> 1, mark |-> 1]
    /\ inflight.stale >= 1
    /\ cam.isMarking

\* C22: a session and a second one given the same detector results return
\* the same outcome at every call and agree in every observable field,
\* whatever expression variation each of them draws.
C22_DrawChangesNothing ==
    /\ obs.answered = returned
    /\ Observable(det).screenSpoofingDetected = Observable(obs.twin).screenSpoofingDetected
    /\ Observable(det).antiSpoofingScore = Observable(obs.twin).antiSpoofingScore
    /\ Observable(det).livenessStatus = Observable(obs.twin).livenessStatus

\* the two sessions drew different expression variations at a frame of a
\* full window and returned the same snapshot
C22_DifferentDraws ==
    /\ obs.differed
    /\ Len(det.frameHistory) >= 8
    /\ returned.kind = "value"
    /\ obs.answered = returned

\* C23: no snapshot and no state of the session has isActive true together
\* with a raised spoof flag; as a raised flag stays raised until reset(),
\* isActive is false in every snapshot from the raising frame to the reset.
C23_NeverActiveAndSpoofed ==
    /\ ~(det.isLivenessActive /\ (det.photoSpoofingDetected \/ det.screenSpoofingDetected))
    /\ ~(returned.value.isActive /\ returned.value.spoofingDetected)
    /\ ~(returned.value.isActive /\ returned.value.photoSpoofingDetected)
    /\ ~(returned.value.isActive /\ returned.value.screenSpoofingDetected)

\* a flag was raised, then two blinks and head movement were detected: the
\* gestures are complete and the snapshot is not active
C23_SpoofedWithGestures ==
    /\ det.photoSpoofingDetected
    /\ det.blinkCount >= 2
    /\ det.headMovementDetected
    /\ returned.kind = "value"
    /\ returned.value.spoofingDetected
    /\ ~returned.value.isActive

\* C24: with liveness enabled, a recognition request is sent only after a
\* snapshot returned since the startMarking of the current marking session
\* (and so since its reset()) has satisfied the gate.
C24_NoStaleAuthorization ==
    [][ (requests' = requests + 1 /\ cam.livenessEnabled) => obs.authorized ]_vars

\* C25: whenever the screen-spoof flag is raised the photo-spoof flag is
\* raised too, and the status screen_detected is never produced.
C25_ScreenImpliesPhoto ==
    /\ det.screenSpoofingDetected => det.photoSpoofingDetected
    /\ det.livenessStatus # "screen_detected"
    /\ returned.value.screenSpoofingDetected => returned.value.photoSpoofingDetected
    /\ returned.value.status # "screen_detected"

\* the screen flag is raised over a window in which the nose has moved
C25_ScreenFlagWithMotion ==
    /\ det.screenSpoofingDetected
    /\ det.photoSpoofingDetected
    /\ TotalDisplacement(det.frameHistory) > 0
    /\ returned.kind = "value"
    /\ returned.value.status = "photo_detected"

\* C26: isActive true implies a real-person score of at least 70, in the
\* session and in every snapshot, so the host's gate accepts exactly the
\* snapshots with isActive true.
C26_ActiveImpliesRealPerson ==
    /\ det.isLivenessActive => det.realPersonScore >= 70
    /\ returned.value.isActive => returned.value.realPersonScore >= 70
    /\ PassesGate(returned.value) = returned.value.isActive
    /\ PassesGate(getLivenessData(det)) = det.isLivenessActive

\* an active snapshot without the mouth points: 40 for the blinks, 30 for
\* the head movement and 10 for the anti-spoofing score
C26_ActiveAtEighty ==
    /\ returned.kind = "value"
    /\ returned.value.isActive
    /\ ~returned.value.mouthOpenDetected
    /\ returned.value.realPersonScore = 80

\* C27: after a single-face frame with at least 2 blinks counted, head
\* movement detected, neither spoof flag raised and a mean displacement of
\* at least 0.1, isActive is true, with a liveness score of exactly 80 when
\* the mouth-open latch is not set.
C27_MouthIsNoGate ==
    [][ ( /\ frames' = frames + 1
          /\ det'.blinkCount >= 2
          /\ det'.headMovementDetected
          /\ ~det'.photoSpoofingDetected
          /\ ~det'.screenSpoofingDetected
          /\ ~MeanDisplacementBelow(det'.frameHistory, 100) ) =>
            /\ det'.isLivenessActive
            /\ returned'.value.isActive
            /\ ~det'.mouthOpenDetected => det'.livenessScore = 80
      ]_vars

\* the session is active after 9 frames, too few for the mouth to have
\* been open for 5 of them and counted
C27_ActiveWithoutMouth ==
    /\ frames = 9
    /\ det.isLivenessActive
    /\ ~det.mouthOpenDetected
    /\ run.open < 5
    /\ det.livenessScore = 80

\* C28: the status suspicious is never produced: in no state do at least 2
\* blinks, head movement, both spoof flags clear and an anti-spoofing score
\* below 70 hold together after a single-face frame.
C28_NeverSuspicious ==
    /\ det.livenessStatus # "suspicious"
    /\ returned.value.status # "suspicious"
    /\ ~( /\ frames > 0
          /\ det.blinkCount >= 2
          /\ det.headMovementDetected
          /\ ~det.photoSpoofingDetected
          /\ ~det.screenSpoofingDetected
          /\ det.antiSpoofingScore < 70 )

\* two blinks and head movement with a mean displacement below 0.05: the
\* far first sample has left the full window and both flags are raised
C28_StillAfterGestures ==
    /\ det.blinkCount >= 2
    /\ det.headMovementDetected
    /\ MeanDisplacementBelow(det.frameHistory, 50)
    /\ TotalDisplacement(det.frameHistory) > 0
    /\ det.antiSpoofingScore < 70
    /\ det.screenSpoofingDetected
    /\ det.photoSpoofingDetected
    /\ det.livenessStatus = "photo_detected"

====
